---- MODULE Spec2Model ----
(***************************************************************************)
(* A model of package buffer (src/buffer.go): the Option validation, the   *)
(* per-entry metric, Buffer (Read / Write / Exist / Tidy) and Single       *)
(* (Read / Write / Exist).                                                 *)
(*                                                                         *)
(* Time is the value of nowUnix(): whole seconds.  Option.Timeout is a     *)
(* float64 in the source; the model draws whole-second values for it.      *)
(* A proto.Message is an opaque value; the nil interface value is NilMsg.  *)
(***************************************************************************)
EXTENDS Integers, Naturals, Sequences, FiniteSets, TLC

\* ------------------------------------------------------------------------
\* Program constants (src/buffer.go:33-38)
\* ------------------------------------------------------------------------
stdLen == 10

stdCap == 20

stdTimeout == 10

stdVisits == 5

\* ------------------------------------------------------------------------
\* Bounds of the model
\* ------------------------------------------------------------------------
\* Largest number of clock ticks (seconds) a behaviour takes.
MaxTicks == 2

\* Largest number of Write calls of a behaviour that starts with an empty cache.
MaxWrites == 2

\* Largest number of Read calls, on keys a Write returned, of a behaviour.
MaxReads == 3

\* SpecTrim: largest number of entries written beyond stdCap.
MaxOver == 2

\* SpecTrim: largest number of Read calls, on keys a Write returned.
MaxTrimReads == 1

\* SpecConc: largest number of Write calls the goroutines make.
MaxConcWrites == 2

\* SpecConc: largest number of Read and Exist calls the goroutines make.
MaxConcReads == 2

\* Largest number of option functions handed to New / NewSingle.
MaxOptions == 2

\* ------------------------------------------------------------------------
\* Values
\* ------------------------------------------------------------------------
\* The messages callers store, and the nil proto.Message.
Msgs == {"m1", "m2"}

NilMsg == "nil"

\* A nil *Buffer / *Single, and the nil error.
NilPtr == [nil |-> TRUE]

NilErr == "nil"

ErrInvalidValue == "invalid option value"

\* The clock when the program starts: a Unix time, later than any Timeout
\* after the zero time.Duration of a fresh metric.
StartTime == stdTimeout + 1

VARIABLES
    now,      \* time.Now().Unix()
    b,        \* the *Buffer under test (NilPtr: none)
    s,        \* the *Single under test (NilPtr: none)
    giter,    \* the process-wide sequence behind iterator.Get()
    err,      \* the error returned by the last New / NewSingle
    args,     \* the option functions the next New / NewSingle is called with
    last,     \* the last completed call: its arguments and what it returned
    hist,     \* per key of the Buffer: when it was written, the Read calls made on it
    pc,       \* per goroutine: the place it is at in the call it is making
    obs       \* what the goroutines' calls have done so far

vars == <<now, b, s, giter, err, args, last, hist, pc, obs>>

\* The variables of the goroutines of SpecConc.
conc == <<pc, obs>>

\* ------------------------------------------------------------------------
\* Option (src/buffer.go:40-60)
\* ------------------------------------------------------------------------
ZeroOption == [Len |-> 0, Cap |-> 0, Timeout |-> 0, Limit |-> 0]

DefaultOption(o) == [o EXCEPT !.Len = stdLen, !.Cap = stdCap,
                              !.Timeout = stdTimeout, !.Limit = stdVisits]

ValidateLenOnly(o) == o.Len > 0 /\ o.Timeout > 0 /\ o.Limit > 0

Validate(o) == (o.Len > 0 /\ o.Timeout > 0 /\ o.Limit > 0) /\ (o.Cap > o.Len)

\* An OptionFunc is a func(*Option); the model's option functions each set one
\* field: [f |-> field, v |-> value].
ApplyOption(fn, o) == [o EXCEPT ![fn.f] = fn.v]

RECURSIVE ApplyOptions(_, _)
ApplyOptions(fns, o) ==
    IF fns = <<>> THEN o ELSE ApplyOptions(Tail(fns), ApplyOption(Head(fns), o))

\* ------------------------------------------------------------------------
\* metric (src/buffer.go:146-174); t is the value of nowUnix()
\* ------------------------------------------------------------------------
newMetric(x) == [x |-> x, recent |-> 0, used |-> 0]

IncrNoRefresh(m, t) == [m EXCEPT !.used = @ + 1]

Incr(m, t) == [m EXCEPT !.used = @ + 1, !.recent = t]

Reset(m, x, t) == [m EXCEPT !.x = x, !.used = 1, !.recent = t]

canStrictLimit(m, o, t) == t - m.recent <= o.Timeout /\ m.used < o.Limit

canStrictTimeout(m, o, t) == t - m.recent < o.Timeout /\ m.used <= o.Limit

can(m, o, t) == t - m.recent <= o.Timeout /\ m.used <= o.Limit

\* ------------------------------------------------------------------------
\* Maps: store (sync.Map) and tidy (map[int64]*metric) are functions on
\* their key sets.
\* ------------------------------------------------------------------------
EmptyMap == [x \in {} |-> 0]

MapStore(f, x, v) == [y \in DOMAIN f \cup {x} |-> IF y = x THEN v ELSE f[y]]

MapDelete(f, x) == [y \in DOMAIN f \ {x} |-> f[y]]

MapDeleteAll(f, xs) == [y \in DOMAIN f \ xs |-> f[y]]

\* The keys of S in ascending order.
SetToSeq(S) ==
    LET rank == [k \in S |-> Cardinality({j \in S : j < k}) + 1]
    IN  [i \in 1..Cardinality(S) |-> CHOOSE k \in S : rank[k] = i]

\* ------------------------------------------------------------------------
\* Buffer (src/buffer.go:62-144)
\* ------------------------------------------------------------------------
NewBuffer(o) == [op |-> o, store |-> EmptyMap, iter |-> 0, mu |-> 0, tidy |-> EmptyMap]

\* New: the defaults, then every option function, then Validate.
New(options) ==
    LET o == ApplyOptions(options, DefaultOption(ZeroOption))
    IN  IF ~Validate(o) THEN [b |-> NilPtr, err |-> ErrInvalidValue]
        ELSE [b |-> NewBuffer(o), err |-> NilErr]

\* `for x, m := range b.tidy`: Go leaves the iteration order of a map
\* unspecified and starts each range at a random place.  The model's orders
\* are rotations of the ascending key order; r is the key the range starts
\* at.
RangeOrder(keys, r) ==
    SetToSeq({k \in keys : k >= r}) \o SetToSeq({k \in keys : k < r})

ReapTidyOnly(bf, order, t) ==
    LET Valid(x) == can(bf.tidy[x], bf.op, t)
        gone == {x \in DOMAIN bf.tidy : ~Valid(x)}
        kept == SelectSeq(order, Valid)
    IN  [b |-> [bf EXCEPT !.tidy = MapDeleteAll(@, gone)],
         available |-> [i \in 1..Len(kept) |-> bf.tidy[kept[i]]]]

\* The first loop of Tidy (lines 125-132), ranging in the given order: every
\* metric that fails can() at t is deleted from store and tidy, the others
\* are appended to available in the order the range meets them.
Reap(bf, order, t) ==
    LET Valid(x) == can(bf.tidy[x], bf.op, t)
        gone == {x \in DOMAIN bf.tidy : ~Valid(x)}
        kept == SelectSeq(order, Valid)
    IN  [b |-> [bf EXCEPT !.store = MapDeleteAll(@, gone),
                          !.tidy = MapDeleteAll(@, gone)],
         available |-> [i \in 1..Len(kept) |-> bf.tidy[kept[i]]]]

SortByRecentReversed(available) ==
    LET n == Len(available)
        Before(i, j) ==
            \/ available[i].recent > available[j].recent
            \/ available[i].recent = available[j].recent /\ i < j
        rank == [i \in 1..n |-> Cardinality({j \in 1..n : Before(j, i)}) + 1]
    IN  [k \in 1..n |-> available[CHOOSE i \in 1..n : rank[i] = k]]

\* sort.Slice(available, recent ascending), lines 134-136: metrics of equal
\* recent keep the order the range produced them in.
SortByRecent(available) ==
    LET n == Len(available)
        Before(i, j) ==
            \/ available[i].recent < available[j].recent
            \/ available[i].recent = available[j].recent /\ i < j
        rank == [i \in 1..n |-> Cardinality({j \in 1..n : Before(j, i)}) + 1]
    IN  [k \in 1..n |-> available[CHOOSE i \in 1..n : rank[i] = k]]

\* The second loop of Tidy (lines 138-143), i counting from 0:
\*   for i := 0; i < len(b.tidy)-stdLen; i++ { delete available[i].x }
\* len(b.tidy) is read again at every test of the loop condition.
RECURSIVE TrimLoop(_, _, _)
TrimLoop(bf, available, i) ==
    IF i < Cardinality(DOMAIN bf.tidy) - stdLen
    THEN TrimLoop([bf EXCEPT !.store = MapDelete(@, available[i + 1].x),
                             !.tidy = MapDelete(@, available[i + 1].x)],
                  available, i + 1)
    ELSE bf

\* Tidy at time t, its range starting at key r.
TidyB(bf, t, r) ==
    IF Cardinality(DOMAIN bf.tidy) <= stdCap THEN bf
    ELSE LET reaped == Reap(bf, RangeOrder(DOMAIN bf.tidy, r), t)
             available == SortByRecent(reaped.available)
         IN  IF Cardinality(DOMAIN reaped.b.tidy) > stdLen
             THEN TrimLoop(reaped.b, available, 0)
             ELSE reaped.b

\* The keys the model lets a range of b.tidy start at, when Tidy gets to
\* range at all: the two oldest keys and the newest one.  Which entries of
\* equal recent the second loop deletes depends on it: from the oldest key on,
\* from the second oldest on (the oldest is kept), or the newest first.
RangeStarts(bf) ==
    IF Cardinality(DOMAIN bf.tidy) <= stdCap THEN {0}
    ELSE LET keys == DOMAIN bf.tidy
             lo == CHOOSE k \in keys : \A j \in keys : k <= j
             hi == CHOOSE k \in keys : \A j \in keys : k >= j
             rest == keys \ {lo}
         IN  {lo, hi} \cup {k \in rest : \A j \in rest : k <= j}

\* x := b.iter.Value(), line 96: the next key of the Buffer's own sequence,
\* which starts at 1 and is safe to call from several goroutines.
NextKey(bf) == [bf EXCEPT !.iter = @ + 1]

\* b.store.Store(x, msg), line 97.
StoreMsg(bf, x, msg) == [bf EXCEPT !.store = MapStore(@, x, msg)]

TidyInsertLost(bf, x, t) ==
    [bf EXCEPT !.tidy = MapStore(EmptyMap, x, Incr(newMetric(x), t))]

\* b.tidy[x] = newMetric(x).Incr(), line 99.
TidyInsert(bf, x, t) ==
    [bf EXCEPT !.tidy = MapStore(@, x, Incr(newMetric(x), t))]

\* Write up to (not including) its call of Tidy, lines 96-100.
WriteStore(bf, msg, t) ==
    LET x == bf.iter + 1
    IN  TidyInsert(StoreMsg(NextKey(bf), x, msg), x, t)

ReadNoRefresh(bf, x, t) ==
    IF x \notin DOMAIN bf.store THEN [b |-> bf, msg |-> NilMsg, panic |-> FALSE]
    ELSE IF x \notin DOMAIN bf.tidy THEN [b |-> bf, msg |-> NilMsg, panic |-> TRUE]
    ELSE IF ~can(bf.tidy[x], bf.op, t) THEN [b |-> bf, msg |-> NilMsg, panic |-> FALSE]
    ELSE [b |-> [bf EXCEPT !.tidy[x] = IncrNoRefresh(@, t)],
          msg |-> bf.store[x], panic |-> FALSE]

ReadRefreshOnMiss(bf, x, t) ==
    IF x \notin DOMAIN bf.store THEN [b |-> bf, msg |-> NilMsg, panic |-> FALSE]
    ELSE IF x \notin DOMAIN bf.tidy THEN [b |-> bf, msg |-> NilMsg, panic |-> TRUE]
    ELSE IF ~can(bf.tidy[x], bf.op, t)
    THEN [b |-> [bf EXCEPT !.tidy[x].recent = t], msg |-> NilMsg, panic |-> FALSE]
    ELSE [b |-> [bf EXCEPT !.tidy[x] = Incr(@, t)], msg |-> bf.store[x], panic |-> FALSE]

ReadReap(bf, x, t) ==
    IF x \notin DOMAIN bf.store THEN [b |-> bf, msg |-> NilMsg, panic |-> FALSE]
    ELSE IF x \notin DOMAIN bf.tidy THEN [b |-> bf, msg |-> NilMsg, panic |-> TRUE]
    ELSE IF ~can(bf.tidy[x], bf.op, t)
    THEN [b |-> [bf EXCEPT !.store = MapDelete(@, x), !.tidy = MapDelete(@, x)],
          msg |-> NilMsg, panic |-> FALSE]
    ELSE [b |-> [bf EXCEPT !.tidy[x] = Incr(@, t)], msg |-> bf.store[x], panic |-> FALSE]

\* Read, lines 83-93: what it returns and the Buffer it leaves.  An index of
\* b.tidy by a key it does not hold yields a nil *metric, and can() on it
\* panics.
ReadB(bf, x, t) ==
    IF x \notin DOMAIN bf.store THEN [b |-> bf, msg |-> NilMsg, panic |-> FALSE]
    ELSE IF x \notin DOMAIN bf.tidy THEN [b |-> bf, msg |-> NilMsg, panic |-> TRUE]
    ELSE IF ~can(bf.tidy[x], bf.op, t) THEN [b |-> bf, msg |-> NilMsg, panic |-> FALSE]
    ELSE [b |-> [bf EXCEPT !.tidy[x] = Incr(@, t)], msg |-> bf.store[x], panic |-> FALSE]

ExistTouch(bf, x, t) ==
    IF x \notin DOMAIN bf.store THEN [b |-> bf, ok |-> FALSE, panic |-> FALSE]
    ELSE IF x \notin DOMAIN bf.tidy THEN [b |-> bf, ok |-> FALSE, panic |-> TRUE]
    ELSE [b |-> [bf EXCEPT !.tidy[x] = Incr(@, t)],
          ok |-> can(bf.tidy[x], bf.op, t), panic |-> FALSE]

\* Exist, lines 105-111.
ExistB(bf, x, t) ==
    IF x \notin DOMAIN bf.store THEN [b |-> bf, ok |-> FALSE, panic |-> FALSE]
    ELSE IF x \notin DOMAIN bf.tidy THEN [b |-> bf, ok |-> FALSE, panic |-> TRUE]
    ELSE [b |-> bf, ok |-> can(bf.tidy[x], bf.op, t), panic |-> FALSE]

\* ------------------------------------------------------------------------
\* Single (src/buffer.go:176-217)
\* ------------------------------------------------------------------------
NewSingleValue(o) == [op |-> o, store |-> NilMsg, metric |-> newMetric(0)]

NewSingle(options) ==
    LET o == ApplyOptions(options, DefaultOption(ZeroOption))
    IN  IF ~Validate(o) THEN [s |-> NilPtr, err |-> ErrInvalidValue]
        ELSE [s |-> NewSingleValue(o), err |-> NilErr]

SingleReadAnyKey(sg, x, t) ==
    IF can(sg.metric, sg.op, t)
    THEN [s |-> [sg EXCEPT !.metric = Incr(@, t)], msg |-> sg.store]
    ELSE [s |-> sg, msg |-> NilMsg]

SingleReadNoIncr(sg, x, t) ==
    IF sg.metric.x = x /\ can(sg.metric, sg.op, t)
    THEN [s |-> sg, msg |-> sg.store]
    ELSE [s |-> sg, msg |-> NilMsg]

SingleReadB(sg, x, t) ==
    IF sg.metric.x = x /\ can(sg.metric, sg.op, t)
    THEN [s |-> [sg EXCEPT !.metric = Incr(@, t)], msg |-> sg.store]
    ELSE [s |-> sg, msg |-> NilMsg]

\* x is the key s.iter() returned.
SingleWriteB(sg, msg, x, t) ==
    [sg EXCEPT !.metric = Reset(@, x, t), !.store = msg]

SingleExistB(sg, x, t) == sg.metric.x = x /\ can(sg.metric, sg.op, t)

\* ------------------------------------------------------------------------
\* The calls of a sequential caller.  last records the call that returned
\* last in the current second (NoCall: none yet): for Write the key returned
\* and the message written, for Read the key asked for and the message
\* returned, for Exist the key and the answer; n is len(b.tidy) as the call
\* found it (for Write: after its own insertion, when its Tidy starts).
\* hist[k] records, for every key k a Write returned: seq, its place among
\* the Writes; w, the time of the Write; msg, the message written; reads, the number of Read(k) calls
\* made; late, whether one of them came later than Timeout after the entry's
\* last access.
\* ------------------------------------------------------------------------
NoCall == [call |-> "none", x |-> 0, msg |-> NilMsg, ok |-> FALSE, panic |-> FALSE, n |-> 0]

Call(c, x, msg, ok, panic, n) ==
    [call |-> c, x |-> x, msg |-> msg, ok |-> ok, panic |-> panic, n |-> n]

Written(msg) ==
    [seq |-> Cardinality(DOMAIN hist) + 1, w |-> now, msg |-> msg, reads |-> 0, late |-> FALSE]

\* len(b.tidy)
Size(bf) == Cardinality(DOMAIN bf.tidy)

NoteRead(x, isLate) ==
    IF x \in DOMAIN hist
    THEN [hist EXCEPT ![x].reads = @ + 1, ![x].late = @ \/ isLate]
    ELSE hist

\* The sequential caller of Spec, SpecTrim and SpecNew is no goroutine of
\* SpecConc.
NoGoroutines == <<>>

NoObs == [crash |-> "none", returned |-> <<>>, evicted |-> {}, writes |-> 0, reads |-> 0,
          overlap |-> FALSE]

\* time.Now() moves on by a second; no call has returned in the new second.
Tick ==
    /\ now' = now + 1
    /\ last' = NoCall
    /\ UNCHANGED <<b, s, giter, err, args, hist, conc>>

\* b.Write(msg): the whole of lines 95-103, Tidy included.
Write(msg) ==
    /\ b # NilPtr
    /\ LET b1 == WriteStore(b, msg, now)
       IN  /\ \E r \in RangeStarts(b1) : b' = TidyB(b1, now, r)
           /\ last' = Call("Write", b1.iter, msg, TRUE, FALSE, Size(b1))
           /\ hist' = MapStore(hist, b1.iter, Written(msg))
    /\ UNCHANGED <<now, s, giter, err, args, conc>>

\* b.Read(x)
Read(x) ==
    /\ b # NilPtr
    /\ LET r == ReadB(b, x, now)
       IN  /\ b' = r.b
           /\ last' = Call("Read", x, r.msg, r.msg # NilMsg, r.panic, Size(b))
           /\ hist' = NoteRead(x, x \in DOMAIN b.tidy
                                  /\ now - b.tidy[x].recent > b.op.Timeout)
    /\ UNCHANGED <<now, s, giter, err, args, conc>>

\* b.Exist(x)
Exist(x) ==
    /\ b # NilPtr
    /\ LET r == ExistB(b, x, now)
       IN  /\ b' = r.b
           /\ last' = Call("Exist", x, NilMsg, r.ok, r.panic, Size(b))
    /\ UNCHANGED <<now, s, giter, err, args, hist, conc>>

\* b.Tidy(), called by itself.
Tidy ==
    /\ b # NilPtr
    /\ \E r \in RangeStarts(b) : b' = TidyB(b, now, r)
    /\ last' = Call("Tidy", 0, NilMsg, TRUE, FALSE, Size(b))
    /\ UNCHANGED <<now, s, giter, err, args, hist, conc>>

\* s.Write(msg); s.iter is iterator.Get(), the sequence every Single shares.
SingleWrite(msg) ==
    /\ s # NilPtr
    /\ giter' = giter + 1
    /\ s' = SingleWriteB(s, msg, giter + 1, now)
    /\ last' = Call("Write", giter + 1, msg, TRUE, FALSE, 1)
    /\ hist' = MapStore(hist, giter + 1, Written(msg))
    /\ UNCHANGED <<now, b, err, args, conc>>

\* s.Read(x)
SingleRead(x) ==
    /\ s # NilPtr
    /\ LET r == SingleReadB(s, x, now)
       IN  /\ s' = r.s
           /\ last' = Call("Read", x, r.msg, r.msg # NilMsg, FALSE, 1)
    /\ hist' = NoteRead(x, now - s.metric.recent > s.op.Timeout)
    /\ UNCHANGED <<now, b, giter, err, args, conc>>

\* s.Exist(x)
SingleExist(x) ==
    /\ s # NilPtr
    /\ last' = Call("Exist", x, NilMsg, SingleExistB(s, x, now), FALSE, 1)
    /\ UNCHANGED <<now, b, s, giter, err, args, hist, conc>>

\* Another Single of the process takes the next key of the shared sequence.
OtherSingleWrite ==
    /\ s # NilPtr
    /\ giter' = giter + 1
    /\ UNCHANGED <<now, b, s, err, args, last, hist, conc>>

\* ------------------------------------------------------------------------
\* Spec: one cache, built by New or NewSingle from up to MaxOptions option
\* functions, and a sequential caller.
\* ------------------------------------------------------------------------
OptionFuncs ==
    [f : {"Len"}, v : {-1, 0, 1}] \cup [f : {"Cap"}, v : {1, 2, stdLen, stdLen + 1}]
    \cup [f : {"Timeout"}, v : {-1, 0, 1}] \cup [f : {"Limit"}, v : {-1, 0, 1, 2}]

OptionLists == UNION {[1..n -> OptionFuncs] : n \in 0..MaxOptions}

\* The option lists the caches of Spec are built from.
SpecOptions ==
    { <<[f |-> "Timeout", v |-> 1], [f |-> "Limit", v |-> 1]>>,
      <<[f |-> "Timeout", v |-> 1], [f |-> "Limit", v |-> 2]>> }

Init ==
    /\ now = StartTime
    /\ pc = NoGoroutines
    /\ obs = NoObs
    /\ giter = 0
    /\ last = NoCall
    /\ hist = EmptyMap
    /\ args = <<>>
    /\ err = NilErr
    /\ \E options \in SpecOptions :
          \/ b = New(options).b /\ s = NilPtr
          \/ s = NewSingle(options).s /\ b = NilPtr

\* The keys a caller asks for: those handed out, 0 and the next one.
Keys == IF b # NilPtr THEN 0..(b.iter + 1) ELSE 0..(giter + 1)

\* The Read calls made so far on keys a Write returned.
ReadCalls ==
    Cardinality(UNION {{<<k, i>> : i \in 1..hist[k].reads} : k \in DOMAIN hist})

Next ==
    \/ now < StartTime + MaxTicks /\ Tick
    \/ \E msg \in Msgs : b # NilPtr /\ b.iter < MaxWrites /\ Write(msg)
    \/ \E x \in Keys : ReadCalls < MaxReads /\ Read(x)
    \/ \E x \in Keys : Exist(x)
    \/ Tidy
    \/ \E msg \in Msgs : giter < MaxWrites /\ SingleWrite(msg)
    \/ \E x \in Keys : ReadCalls < MaxReads /\ SingleRead(x)
    \/ \E x \in Keys : SingleExist(x)
    \/ giter < MaxWrites /\ OtherSingleWrite

Spec == Init /\ [][Next]_vars

\* ------------------------------------------------------------------------
\* SpecTrim: a Buffer that a burst of Writes, all in the second the program
\* starts in, has filled to stdCap - 1 or stdCap entries, and a sequential
\* caller that goes on from there: the Writes that take len(b.tidy) past
\* stdCap, and Reads and Exists of the oldest key, the newest key and the
\* key not yet handed out.
\* ------------------------------------------------------------------------
TrimOptions ==
    { <<>>,
      <<[f |-> "Cap", v |-> stdCap + 1], [f |-> "Timeout", v |-> 1], [f |-> "Limit", v |-> 1]>>,
      <<[f |-> "Len", v |-> 1], [f |-> "Cap", v |-> 2],
        [f |-> "Timeout", v |-> 1], [f |-> "Limit", v |-> 1]>> }

BurstSizes == {stdCap - 1, stdCap}

BurstMsg == "m1"

\* The Buffer after n more calls of Write(BurstMsg) at time t; there is
\* nothing to call them on when New returned nil.
RECURSIVE Burst(_, _, _)
Burst(bf, n, t) ==
    IF n = 0 \/ bf = NilPtr THEN bf
    ELSE Burst(TidyB(WriteStore(bf, BurstMsg, t), t, 1), n - 1, t)

InitTrim ==
    /\ now = StartTime
    /\ pc = NoGoroutines
    /\ obs = NoObs
    /\ giter = 0
    /\ last = NoCall
    /\ args = <<>>
    /\ err = NilErr
    /\ s = NilPtr
    /\ \E options \in TrimOptions, n \in BurstSizes :
          /\ b = Burst(New(options).b, n, StartTime)
          /\ hist = [k \in 1..n |-> [seq |-> k, w |-> StartTime, msg |-> BurstMsg,
                                     reads |-> 0, late |-> FALSE]]

TrimKeys == {1, b.iter, b.iter + 1}

NextTrim ==
    \/ now < StartTime + MaxTicks /\ Tick
    \/ b.iter < stdCap + MaxOver /\ Write(BurstMsg)
    \/ \E x \in TrimKeys : ReadCalls < MaxTrimReads /\ Read(x)
    \/ \E x \in TrimKeys : Exist(x)
    \/ Tidy

SpecTrim == InitTrim /\ [][NextTrim]_vars

\* ------------------------------------------------------------------------
\* SpecConc: two goroutines calling Write, Read, Exist and Tidy on one
\* Buffer, each call taken a step at a time; a step is one access to
\* b.iter, b.store or b.tidy, or one critical section of b.mu.  The Buffer
\* starts empty or one entry short of stdCap.  pc[p] is where goroutine p is
\* (at), with the key (x) and message (msg) of its call; a Tidy called by
\* itself has x = 0.  obs records: crash, the fault that ended the program;
\* returned, the keys the Writes returned, in order; evicted, the keys Tidy
\* deleted; writes and reads, the calls made; overlap, whether two Writes
\* were ever in progress together.
\* ------------------------------------------------------------------------
Goroutines == {1, 2}

Idle == [at |-> "idle", x |-> 0, msg |-> NilMsg]

NilDereference == "invalid memory address or nil pointer dereference"

MapRace == "concurrent map read and map write"

\* One Read is all an entry allows, so that Tidy finds entries to reap.
ConcOptions == { <<[f |-> "Limit", v |-> 1]>> }

ConcBursts == {0, stdCap - 1}

InitConc ==
    /\ now = StartTime
    /\ giter = 0
    /\ last = NoCall
    /\ args = <<>>
    /\ err = NilErr
    /\ s = NilPtr
    /\ pc = [p \in Goroutines |-> Idle]
    /\ obs = NoObs
    /\ \E options \in ConcOptions, n \in ConcBursts :
          /\ b = Burst(New(options).b, n, StartTime)
          /\ hist = [k \in 1..n |-> [seq |-> k, w |-> StartTime, msg |-> BurstMsg,
                                     reads |-> 0, late |-> FALSE]]

InWrite(q) == pc[q].at \in {"store", "lock", "insert", "tidy", "trim"} /\ pc[q].x # 0

\* Goroutine p reads b.tidy without b.mu while another goroutine is inside
\* a critical section that writes the map.
Racing(p) ==
    /\ b.mu \notin {0, p}
    /\ \/ pc[b.mu].at = "insert"
       \/ pc[b.mu].at = "trim" /\ \E r \in RangeStarts(b) : TidyB(b, now, r).tidy # b.tidy

\* The message goroutine p writes.
ConcMsg(p) == IF p = 1 THEN "m1" ELSE "m2"

\* Write, line 96: x := b.iter.Value()
GoWrite(p, msg) ==
    /\ obs.crash = "none"
    /\ pc[p].at = "idle"
    /\ obs.writes < MaxConcWrites
    /\ b' = NextKey(b)
    /\ pc' = [pc EXCEPT ![p] = [at |-> "store", x |-> b.iter + 1, msg |-> msg]]
    /\ obs' = [obs EXCEPT !.writes = @ + 1,
                          !.overlap = @ \/ \E q \in Goroutines \ {p} : InWrite(q)]
    /\ UNCHANGED <<now, s, giter, err, args, last, hist>>

\* Write, line 97: b.store.Store(x, msg)
GoStore(p) ==
    /\ obs.crash = "none"
    /\ pc[p].at = "store"
    /\ b' = StoreMsg(b, pc[p].x, pc[p].msg)
    /\ pc' = [pc EXCEPT ![p].at = "lock"]
    /\ UNCHANGED <<now, s, giter, err, args, last, hist, obs>>

\* Write, line 98: b.mu.Lock()
GoLock(p) ==
    /\ obs.crash = "none"
    /\ pc[p].at = "lock"
    /\ b.mu = 0
    /\ b' = [b EXCEPT !.mu = p]
    /\ pc' = [pc EXCEPT ![p].at = "insert"]
    /\ UNCHANGED <<now, s, giter, err, args, last, hist, obs>>

\* Write, lines 99-100: b.tidy[x] = newMetric(x).Incr(); b.mu.Unlock()
GoInsert(p) ==
    /\ obs.crash = "none"
    /\ pc[p].at = "insert"
    /\ b' = [TidyInsert(b, pc[p].x, now) EXCEPT !.mu = 0]
    /\ pc' = [pc EXCEPT ![p].at = "tidy"]
    /\ UNCHANGED <<now, s, giter, err, args, last, hist, obs>>

\* A call of b.Tidy() by itself.
GoTidy(p) ==
    /\ obs.crash = "none"
    /\ pc[p].at = "idle"
    /\ pc' = [pc EXCEPT ![p] = [at |-> "tidy", x |-> 0, msg |-> NilMsg]]
    /\ UNCHANGED <<now, b, s, giter, err, args, last, hist, obs>>

\* Tidy, line 115: b.mu.Lock()
GoTidyLock(p) ==
    /\ obs.crash = "none"
    /\ pc[p].at = "tidy"
    /\ b.mu = 0
    /\ b' = [b EXCEPT !.mu = p]
    /\ pc' = [pc EXCEPT ![p].at = "trim"]
    /\ UNCHANGED <<now, s, giter, err, args, last, hist, obs>>

\* Tidy, lines 118-144, and the deferred b.mu.Unlock(); then, in a Write,
\* line 102: return x.
GoTidyBody(p) ==
    /\ obs.crash = "none"
    /\ pc[p].at = "trim"
    /\ \E r \in RangeStarts(b) :
          /\ b' = [TidyB(b, now, r) EXCEPT !.mu = 0]
          /\ obs' = [obs EXCEPT
                       !.evicted = @ \cup (DOMAIN b.tidy \ DOMAIN TidyB(b, now, r).tidy),
                       !.returned = IF pc[p].x # 0 THEN Append(@, pc[p].x) ELSE @]
    /\ hist' = IF pc[p].x # 0 THEN MapStore(hist, pc[p].x, Written(pc[p].msg)) ELSE hist
    /\ pc' = [pc EXCEPT ![p] = Idle]
    /\ UNCHANGED <<now, s, giter, err, args, last>>

\* Read, lines 84-87: value, ok := b.store.Load(x)
GoRead(p, x) ==
    /\ obs.crash = "none"
    /\ pc[p].at = "idle"
    /\ obs.reads < MaxConcReads
    /\ obs' = [obs EXCEPT !.reads = @ + 1]
    /\ pc' = IF x \in DOMAIN b.store
             THEN [pc EXCEPT ![p] = [at |-> "can", x |-> x, msg |-> b.store[x]]]
             ELSE pc
    /\ UNCHANGED <<now, b, s, giter, err, args, last, hist>>

\* Read, lines 88-90: b.tidy[x].can(b.op, nowUnix()), with no lock held.
GoCan(p) ==
    /\ obs.crash = "none"
    /\ pc[p].at = "can"
    /\ \/ /\ Racing(p)
          /\ obs' = [obs EXCEPT !.crash = MapRace]
          /\ pc' = pc
       \/ /\ pc[p].x \notin DOMAIN b.tidy
          /\ obs' = [obs EXCEPT !.crash = NilDereference]
          /\ pc' = pc
       \/ /\ pc[p].x \in DOMAIN b.tidy
          /\ obs' = obs
          /\ pc' = IF can(b.tidy[pc[p].x], b.op, now)
                   THEN [pc EXCEPT ![p].at = "incr"]
                   ELSE [pc EXCEPT ![p] = Idle]
    /\ UNCHANGED <<now, b, s, giter, err, args, last, hist>>

\* Read, lines 91-92: b.tidy[x].Incr(), with no lock held; return value.
GoIncr(p) ==
    /\ obs.crash = "none"
    /\ pc[p].at = "incr"
    /\ \/ /\ Racing(p)
          /\ obs' = [obs EXCEPT !.crash = MapRace]
          /\ UNCHANGED <<b, pc>>
       \/ /\ pc[p].x \notin DOMAIN b.tidy
          /\ obs' = [obs EXCEPT !.crash = NilDereference]
          /\ UNCHANGED <<b, pc>>
       \/ /\ pc[p].x \in DOMAIN b.tidy
          /\ b' = [b EXCEPT !.tidy[pc[p].x] = Incr(@, now)]
          /\ pc' = [pc EXCEPT ![p] = Idle]
          /\ obs' = obs
    /\ UNCHANGED <<now, s, giter, err, args, last, hist>>

\* Exist, lines 106-109: _, ok := b.store.Load(x)
GoExist(p, x) ==
    /\ obs.crash = "none"
    /\ pc[p].at = "idle"
    /\ obs.reads < MaxConcReads
    /\ obs' = [obs EXCEPT !.reads = @ + 1]
    /\ pc' = IF x \in DOMAIN b.store
             THEN [pc EXCEPT ![p] = [at |-> "probe", x |-> x, msg |-> NilMsg]]
             ELSE pc
    /\ UNCHANGED <<now, b, s, giter, err, args, last, hist>>

\* Exist, line 110: return b.tidy[x].can(b.op, nowUnix()), with no lock held.
GoProbe(p) ==
    /\ obs.crash = "none"
    /\ pc[p].at = "probe"
    /\ \/ /\ Racing(p)
          /\ obs' = [obs EXCEPT !.crash = MapRace]
          /\ pc' = pc
       \/ /\ pc[p].x \notin DOMAIN b.tidy
          /\ obs' = [obs EXCEPT !.crash = NilDereference]
          /\ pc' = pc
       \/ /\ pc[p].x \in DOMAIN b.tidy
          /\ obs' = obs
          /\ pc' = [pc EXCEPT ![p] = Idle]
    /\ UNCHANGED <<now, b, s, giter, err, args, last, hist>>

\* The keys the goroutines ask for: the oldest, the newest and the next one.
ConcKeys == {1, b.iter, b.iter + 1}

NextConc ==
    \E p \in Goroutines :
        \/ GoWrite(p, ConcMsg(p))
        \/ GoStore(p)
        \/ GoLock(p)
        \/ GoInsert(p)
        \/ GoTidy(p)
        \/ GoTidyLock(p)
        \/ GoTidyBody(p)
        \/ \E x \in ConcKeys : GoRead(p, x)
        \/ GoCan(p)
        \/ GoIncr(p)
        \/ \E x \in ConcKeys : GoExist(p, x)
        \/ GoProbe(p)

SpecConc == InitConc /\ [][NextConc]_vars

\* ------------------------------------------------------------------------
\* SpecNew: the constructors, called with every list of up to MaxOptions
\* option functions.
\* ------------------------------------------------------------------------
InitNew ==
    /\ now = StartTime
    /\ pc = NoGoroutines
    /\ obs = NoObs
    /\ giter = 0
    /\ last = NoCall
    /\ hist = EmptyMap
    /\ args \in OptionLists
    /\ err = NilErr
    /\ b = NilPtr
    /\ s = NilPtr

CallNew ==
    /\ last.call = "none"
    /\ b' = New(args).b
    /\ err' = New(args).err
    /\ last' = Call("New", 0, NilMsg, New(args).err = NilErr, FALSE, 0)
    /\ UNCHANGED <<now, s, giter, args, hist, conc>>

CallNewSingle ==
    /\ last.call = "none"
    /\ s' = NewSingle(args).s
    /\ err' = NewSingle(args).err
    /\ last' = Call("NewSingle", 0, NilMsg, NewSingle(args).err = NilErr, FALSE, 0)
    /\ UNCHANGED <<now, b, giter, args, hist, conc>>

NextNew == CallNew \/ CallNewSingle

SpecNew == InitNew /\ [][NextNew]_vars

\* ------------------------------------------------------------------------
\* Properties
\* ------------------------------------------------------------------------

\* C1  Round trip on Buffer: a Read of the key a Write has just returned, in
\* the same second and with no call in between, returns the message written,
\* as long as the number of entries (the Write's own included) is at most the
\* configured capacity.
C1_RoundTrip ==
    [][(/\ b # NilPtr
        /\ last.call = "Write"
        /\ last.n <= b.op.Cap
        /\ last'.call = "Read"
        /\ last'.x = last.x
        /\ now' = now)
       => last'.msg = last.msg]_vars

\* C2  Access-limit expiry on Buffer: for a key a Write returned, still in
\* the cache, all of whose Read calls came within the TTL of its last access,
\* a Read returns the written message exactly when it is one of the first
\* Limit Read calls on that key, and nil from call Limit + 1 onward.
C2_AccessLimit ==
    (/\ b # NilPtr
     /\ last.call = "Read"
     /\ last.x \in DOMAIN hist
     /\ last.x \in DOMAIN b.tidy
     /\ ~hist[last.x].late)
    => /\ last.ok <=> hist[last.x].reads <= b.op.Limit
       /\ last.msg = IF hist[last.x].reads <= b.op.Limit
                     THEN hist[last.x].msg ELSE NilMsg

\* A Read, number Limit + 1 on its key and within the TTL, has returned nil
\* (Limit = 2).
C2_Witness ==
    /\ b # NilPtr
    /\ last.call = "Read"
    /\ last.x \in DOMAIN hist
    /\ last.x \in DOMAIN b.tidy
    /\ ~hist[last.x].late
    /\ b.op.Limit = 2
    /\ hist[last.x].reads = 3
    /\ ~last.ok

\* C3  TTL expiry on Buffer: a key written at time w and not read since is
\* absent for every Read and Exist at a time later than w + Timeout, and, as
\* long as it is in the cache, present at every time up to w + Timeout.
C3_TTL ==
    (/\ b # NilPtr
     /\ last.call \in {"Read", "Exist"}
     /\ last.x \in DOMAIN hist
     /\ hist[last.x].reads = (IF last.call = "Read" THEN 1 ELSE 0))
    => /\ now > hist[last.x].w + b.op.Timeout => ~last.ok /\ last.msg = NilMsg
       /\ (now - hist[last.x].w <= b.op.Timeout /\ last.x \in DOMAIN b.tidy)
            => /\ last.ok
               /\ last.call = "Read" => last.msg = hist[last.x].msg

\* The first Read of a key, later than Timeout after its Write, has returned
\* nil while the entry is still in the cache.
C3_Witness ==
    /\ b # NilPtr
    /\ last.call = "Read"
    /\ last.x \in DOMAIN hist
    /\ hist[last.x].reads = 1
    /\ last.x \in DOMAIN b.store
    /\ now > hist[last.x].w + b.op.Timeout
    /\ ~last.ok

\* C4  Capacity trim: when Tidy runs (by itself or at the end of a Write) with
\* more entries than the configured capacity, at most Len entries are left
\* when it returns.
C4_CapacityTrim ==
    (/\ b # NilPtr
     /\ last.call \in {"Write", "Tidy"}
     /\ last.n > b.op.Cap)
    => Size(b) <= b.op.Len

\* C5  Tidy threshold follows the configured capacity: a Tidy that finds at
\* most Cap metrics removes nothing; called by itself it leaves the Buffer
\* unchanged, and at the end of a Write the Buffer holds what it held before
\* plus the new entry.
C5_TidyThreshold ==
    [][(/\ b # NilPtr
        /\ last'.call \in {"Write", "Tidy"}
        /\ last'.n <= b.op.Cap)
       => /\ last'.call = "Tidy" => b' = b
          /\ last'.call = "Write" =>
                /\ DOMAIN b'.tidy = DOMAIN b.tidy \cup {last'.x}
                /\ DOMAIN b'.store = DOMAIN b.store \cup {last'.x}]_vars

\* The effective options of a constructor call: the defaults, each field
\* overridden by the last option function that sets it.
Effective(fns, field, default) ==
    IF \E i \in 1..Len(fns) : fns[i].f = field
    THEN fns[CHOOSE i \in 1..Len(fns) :
                 fns[i].f = field /\ \A j \in (i + 1)..Len(fns) : fns[j].f # field].v
    ELSE default

EffectiveOption(fns) ==
    [Len |-> Effective(fns, "Len", stdLen), Cap |-> Effective(fns, "Cap", stdCap),
     Timeout |-> Effective(fns, "Timeout", stdTimeout),
     Limit |-> Effective(fns, "Limit", stdVisits)]

Acceptable(o) == o.Len > 0 /\ o.Timeout > 0 /\ o.Limit > 0 /\ o.Cap > o.Len

\* C6  Config rejection: New and NewSingle return ErrInvalidValue and a nil
\* cache exactly when the effective options violate Len > 0, Timeout > 0,
\* Limit > 0 and Cap > Len; otherwise they return a cache holding the
\* effective options and no error.
C6_ConfigRejection ==
    last.call \in {"New", "NewSingle"}
    => LET o == EffectiveOption(args)
           cache == IF last.call = "New" THEN b ELSE s
       IN  /\ ~Acceptable(o) <=> (err = ErrInvalidValue /\ cache = NilPtr)
           /\ Acceptable(o) => /\ err = NilErr
                               /\ cache # NilPtr
                               /\ cache.op = o
           /\ err \in {NilErr, ErrInvalidValue}

\* New has rejected options whose only fault is Cap = Len.
C6_Witness ==
    /\ last.call = "New"
    /\ err = ErrInvalidValue
    /\ b = NilPtr
    /\ LET o == EffectiveOption(args)
       IN  o.Len > 0 /\ o.Timeout > 0 /\ o.Limit > 0 /\ o.Cap = o.Len

\* C7  Single-slot overwrite: once a later Write has returned, every Read of
\* a key an earlier Write returned is nil and every Exist of it false.
C7_SingleOverwrite ==
    (/\ s # NilPtr
     /\ last.call \in {"Read", "Exist"}
     /\ last.x \in DOMAIN hist
     /\ hist[last.x].seq < Cardinality(DOMAIN hist))
    => ~last.ok /\ last.msg = NilMsg

\* A Read of the previous key has returned nil although the slot's metric is
\* valid.
C7_Witness ==
    /\ s # NilPtr
    /\ last.call = "Read"
    /\ last.x \in DOMAIN hist
    /\ hist[last.x].seq < Cardinality(DOMAIN hist)
    /\ can(s.metric, s.op, now)
    /\ ~last.ok

\* C10  Exist is a read-only probe: a step that ends with an Exist having
\* returned leaves the Buffer's store and metric table, and the Single's slot
\* and metric, as they were.
C10_ExistReadOnly ==
    [][last'.call = "Exist" => b' = b /\ s' = s]_vars

\* An Exist has answered true for a key of the Buffer that was read before.
C10_Witness ==
    /\ b # NilPtr
    /\ last.call = "Exist"
    /\ last.ok
    /\ last.x \in DOMAIN hist
    /\ hist[last.x].reads > 0

\* C8  Read versus concurrent deletion: in every interleaving of a Read or
\* an Exist with a concurrent Tidy or Write, the call never finds its key in
\* the store and then no metric for it (a nil *metric, which can() and Incr()
\* dereference), and it never reads the metric table while Tidy or Write is
\* writing it: the program never ends in either fault.
C8_ReadSeesWhole ==
    /\ obs.crash # NilDereference
    /\ obs.crash # MapRace

\* C9  Concurrent Writes on one Buffer: the keys the Writes returned are
\* pairwise different, and once no Write is in progress every returned key
\* that no Tidy pass deleted has its own payload in the store and its own
\* metric in the metric table.
C9_ConcurrentWrites ==
    /\ \A i, j \in DOMAIN obs.returned :
          i # j => obs.returned[i] # obs.returned[j]
    /\ (\A q \in Goroutines : ~InWrite(q)) =>
          \A i \in DOMAIN obs.returned :
              LET x == obs.returned[i]
              IN  x \notin obs.evicted =>
                    /\ x \in DOMAIN b.store
                    /\ b.store[x] = hist[x].msg
                    /\ x \in DOMAIN b.tidy
                    /\ b.tidy[x].x = x

\* Two Writes that were in progress together have both returned, no Write is
\* in progress, and neither key was deleted by a Tidy pass.
C9_Witness ==
    /\ obs.overlap
    /\ Len(obs.returned) >= 2
    /\ \A q \in Goroutines : ~InWrite(q)
    /\ \A i \in DOMAIN obs.returned :
          obs.returned[i] \notin obs.evicted /\ obs.returned[i] \in DOMAIN b.tidy

\* C11  Read never deletes: a Buffer.Read leaves the key sets of store and
\* of the metric table as they were, and a Read that returns nil (unknown
\* key, expired entry, exhausted access limit) leaves the whole Buffer as it
\* was, the invalid entry still resident.
C11_ReadNeverDeletes ==
    [][(b # NilPtr /\ last'.call = "Read")
       => /\ DOMAIN b'.store = DOMAIN b.store
          /\ DOMAIN b'.tidy = DOMAIN b.tidy
          /\ last'.msg = NilMsg => b' = b]_vars

\* A Read has returned nil for an entry that is resident and invalid.
C11_Witness ==
    /\ b # NilPtr
    /\ last.call = "Read"
    /\ last.msg = NilMsg
    /\ last.x \in DOMAIN b.store
    /\ last.x \in DOMAIN b.tidy
    /\ ~can(b.tidy[last.x], b.op, now)

\* No goroutine is inside a Write or a Tidy.
Quiescent ==
    \A q \in Goroutines : pc[q].at \notin {"store", "lock", "insert", "tidy", "trim"}

\* C12  Store/metrics agreement: whenever no Write and no Tidy is in
\* flight, after any interleaving of Write, Read, Exist and Tidy, store and
\* the metric table hold the same keys.
C12_StoreMetricsAgree ==
    (pc # NoGoroutines /\ Quiescent) => DOMAIN b.store = DOMAIN b.tidy

\* All is quiet after Writes have returned and a Tidy pass has deleted
\* entries while others remain.
C12_Witness ==
    /\ pc # NoGoroutines
    /\ Quiescent
    /\ Len(obs.returned) >= 1
    /\ obs.evicted # {}
    /\ DOMAIN b.tidy # {}

\* Key x is the key the most recent Write of the cache returned.
MostRecentKey(x) == x \in DOMAIN hist /\ hist[x].seq = Cardinality(DOMAIN hist)

\* C13  Single.Read contract: Single.Read(x) returns the stored payload if
\* and only if x is the key of the most recent Write and the slot's metric is
\* valid (time since last access <= Timeout and used <= Limit); a successful
\* Read adds one to used and sets recent to the present; any other Read
\* changes nothing.  Consequently, of the Reads of the latest key that all
\* came within the Timeout, exactly the first Limit succeed.
C13_SingleReadContract ==
    [][(s # NilPtr /\ last'.call = "Read" /\ giter' = giter)
       => LET x == last'.x
              valid == /\ now - s.metric.recent <= s.op.Timeout
                       /\ s.metric.used <= s.op.Limit
              hit == MostRecentKey(x) /\ valid
          IN  /\ last'.msg # NilMsg <=> hit
              /\ hit => /\ last'.msg = hist[x].msg
                        /\ s'.metric.used = s.metric.used + 1
                        /\ s'.metric.recent = now
              /\ ~hit => s' = s
              /\ (MostRecentKey(x) /\ ~hist'[x].late)
                    => (last'.msg # NilMsg <=> hist'[x].reads <= s.op.Limit)]_vars

\* The Read after the last allowed one has returned nil: the latest key of a
\* Single was read Limit + 1 times, every time within the Timeout.
C13_Witness ==
    /\ s # NilPtr
    /\ last.call = "Read"
    /\ MostRecentKey(last.x)
    /\ ~hist[last.x].late
    /\ hist[last.x].reads = s.op.Limit + 1
    /\ last.msg = NilMsg

\* C14  Reap phase: whenever Tidy has run with more than the configured
\* capacity of entries, no entry that is invalid at that time (age > Timeout
\* or used > Limit) is left in store or in the metric table when it returns.
C14_ReapPhase ==
    (/\ b # NilPtr /\ last.call \in {"Write", "Tidy"} /\ last.n > b.op.Cap)
    => \A x \in DOMAIN b.store \cup DOMAIN b.tidy :
          x \in DOMAIN b.tidy /\ can(b.tidy[x], b.op, now)

\* C15  Trim order is least recently used first: of the entries that were
\* valid when a Tidy ran (the one of a Write runs after the Write's own
\* insertion), every one it deleted has a recent less than or equal to the
\* recent of every entry it kept.
C15_TrimOrder ==
    [][(b # NilPtr /\ last'.call \in {"Write", "Tidy"})
       => LET pre == IF last'.call = "Write"
                     THEN WriteStore(b, last'.msg, now).tidy
                     ELSE b.tidy
          IN  \A x \in DOMAIN pre \ DOMAIN b'.tidy :
                 can(pre[x], b.op, now)
                    => \A y \in DOMAIN b'.tidy : pre[x].recent <= pre[y].recent]_vars

\* A Tidy has just trimmed a Buffer of the default configuration, in which
\* no entry was invalid, and kept an entry accessed later than a deleted one
\* was written.
C15_Witness ==
    /\ b # NilPtr
    /\ b.op.Timeout = stdTimeout
    /\ last.call \in {"Write", "Tidy"}
    /\ last.n > stdCap
    /\ Size(b) < last.n
    /\ \E k \in DOMAIN hist \ DOMAIN b.tidy :
          \E y \in DOMAIN b.tidy : b.tidy[y].recent > hist[k].w

\* C16  Sliding TTL: a successful Buffer.Read(x) at time t1 sets the entry's
\* recent to t1 and adds exactly one to used, and nothing else changes a
\* resident entry's metric; a Read(x) of a resident entry returns the payload
\* whenever the time since recent is at most Timeout and used is at most
\* Limit, however long ago the entry was written.
C16_SlidingTTL ==
    [][b # NilPtr
       => /\ \A x \in DOMAIN b.tidy \cap DOMAIN b'.tidy :
                IF last'.call = "Read" /\ last'.x = x /\ last'.msg # NilMsg
                THEN /\ b'.tidy[x].recent = now
                     /\ b'.tidy[x].used = b.tidy[x].used + 1
                ELSE b'.tidy[x] = b.tidy[x]
          /\ (/\ last'.call = "Read"
              /\ last'.x \in DOMAIN b.tidy
              /\ now - b.tidy[last'.x].recent <= b.op.Timeout
              /\ b.tidy[last'.x].used <= b.op.Limit)
                => last'.msg = hist[last'.x].msg]_vars

\* A Read has returned the payload later than Timeout after the Write.
C16_Witness ==
    /\ b # NilPtr
    /\ last.call = "Read"
    /\ last.msg # NilMsg
    /\ last.x \in DOMAIN hist
    /\ now - hist[last.x].w > b.op.Timeout

\* C17  Size bound: in a sequential execution, whenever a Write has
\* returned, the Buffer holds at most the configured capacity of entries.
C17_SizeBound ==
    (b # NilPtr /\ last.call = "Write")
    => /\ Size(b) <= b.op.Cap
       /\ Cardinality(DOMAIN b.store) <= b.op.Cap

\* C18  A Write never evicts its own entry: in a sequential execution, when
\* Write has returned key x, x is in store and in the metric table, also
\* when the Tidy of that Write reaped and trimmed and other entries carry
\* the same recent as x.
C18_WriteKeepsOwnEntry ==
    (b # NilPtr /\ last.call = "Write")
    => /\ last.x \in DOMAIN b.store
       /\ last.x \in DOMAIN b.tidy

\* C19  Access limit under concurrent readers: in every interleaving of
\* concurrent Read(k) calls, at most Limit of them return the payload; used
\* is 1 after the Write and grows by one with each Read that gets past
\* can(), so used never exceeds Limit + 1.
C19_ConcurrentAccessLimit ==
    b # NilPtr => \A k \in DOMAIN b.tidy : b.tidy[k].used <= b.op.Limit + 1

\* What Read and Exist test: key x is in store and its metric passes can()
\* at time t.
Readable(bf, x, t) ==
    /\ x \in DOMAIN bf.store
    /\ x \in DOMAIN bf.tidy
    /\ can(bf.tidy[x], bf.op, t)

\* C20  Unreadability is permanent: in a sequential execution, for a key k
\* a Write returned, once Read(k) has returned nil or Exist(k) false, the
\* entry is unreadable (evicted, expired or exhausted), it stays so through
\* every Write, Read, Exist, Tidy and passing of time, and every Read(k) and
\* Exist(k) from such a state returns nil or false.
C20_UnreadablePermanent ==
    [][b # NilPtr
       => \A k \in DOMAIN hist :
             /\ (last.call \in {"Read", "Exist"} /\ last.x = k /\ ~last.ok)
                   => ~Readable(b, k, now)
             /\ ~Readable(b, k, now)
                   => /\ ~Readable(b', k, now')
                      /\ (last'.call \in {"Read", "Exist"} /\ last'.x = k)
                            => ~last'.ok]_vars

\* An Exist has answered false for a key whose one Read, earlier, had
\* returned nil (used is still 1).
C20_Witness ==
    /\ b # NilPtr
    /\ last.call = "Exist"
    /\ ~last.ok
    /\ last.x \in DOMAIN hist
    /\ hist[last.x].reads >= 1
    /\ last.x \in DOMAIN b.tidy
    /\ b.tidy[last.x].used = 1

====
